---------------------------- MODULE Spec2Model ----------------------------
(***************************************************************************)
(* Model of the hexavalent code generators:                                *)
(*   - src/src/print/generate.js : text.c + textevents.in -> events.rs     *)
(*   - src/unnamed/part_001      : cfgfiles.c -> mod.rs (preferences)      *)
(*   - src/unnamed/part_000      : handle_orig.rs -> handle.rs (rewriter)  *)
(* Texts are TLA+ strings; a character is a string of length 1.  Regular   *)
(* expressions are sequences of quantified character classes and are       *)
(* matched by backtracking with JavaScript's priorities.                   *)
(***************************************************************************)
EXTENDS Integers, Sequences, FiniteSets, TLC

VARIABLES
    source,             \* what the input files were rendered from (ghost)
    files,              \* the input files, by name, as fs.readFileSync sees them
    pc,                 \* position of the running script
    err,                \* the exception that ended the run, if any
    field_descriptions, \* generateRustLines' key -> fields object
    yielded,            \* records yielded so far by the reader generator (ghost)
    rewritten,          \* (name, args, declaration) of each replace callback (ghost)
    lastIndex,          \* position of the global regex scan of String.replace
    lines,              \* the lines the reader generator iterates over
    i,                  \* the reader generator's zero-based line index
    out                 \* what has been written to the output file

vars == <<source, files, pc, err, field_descriptions, yielded, rewritten, lastIndex,
          lines, i, out>>

-----------------------------------------------------------------------------
(* Strings *)

At(s, n) == SubSeq(s, n, n)

From(s, n) == SubSeq(s, n, Len(s))

\* Concatenation of the strings f[lo..hi], by halving.
RECURSIVE ConcatRange(_, _, _)
ConcatRange(f, lo, hi) ==
    IF lo > hi THEN ""
    ELSE IF lo = hi THEN f[lo]
    ELSE LET mid == (lo + hi) \div 2 IN ConcatRange(f, lo, mid) \o ConcatRange(f, mid + 1, hi)

Concat(strs) == ConcatRange(strs, 1, Len(strs))

\* Array.prototype.join.
Join(strs, sep) ==
    Concat([k \in 1..Len(strs) |-> IF k = 1 THEN strs[k] ELSE sep \o strs[k]])

SetMin(S) == CHOOSE x \in S : \A y \in S : x <= y
SetMax(S) == 0 - SetMin({0 - x : x \in S})

StartsWith(s, prefix) ==
    Len(s) >= Len(prefix) /\ SubSeq(s, 1, Len(prefix)) = prefix

EndsWith(s, suffix) ==
    Len(s) >= Len(suffix) /\ SubSeq(s, Len(s) - Len(suffix) + 1, Len(s)) = suffix

Includes(s, sub) ==
    \E n \in 1..(Len(s) + 1) :
        n + Len(sub) - 1 <= Len(s) /\ SubSeq(s, n, n + Len(sub) - 1) = sub

LowerLetters == "abcdefghijklmnopqrstuvwxyz"
UpperLetters == "ABCDEFGHIJKLMNOPQRSTUVWXYZ"
DigitChars == "0123456789"

CharsOf(s) == {At(s, n) : n \in 1..Len(s)}

LowerChars == CharsOf(LowerLetters)
UpperChars == CharsOf(UpperLetters)

IndexIn(s, c) == CHOOSE n \in 1..Len(s) : At(s, n) = c

ToUpperChar(c) ==
    IF c \in LowerChars THEN At(UpperLetters, IndexIn(LowerLetters, c)) ELSE c

ToLowerChar(c) ==
    IF c \in UpperChars THEN At(LowerLetters, IndexIn(UpperLetters, c)) ELSE c

toUpperCase(s) == Concat([n \in 1..Len(s) |-> ToUpperChar(At(s, n))])
toLowerCase(s) == Concat([n \in 1..Len(s) |-> ToLowerChar(At(s, n))])

\* Number to decimal text, as template literals print an index.
RECURSIVE NumToString(_)
NumToString(n) ==
    IF n < 10 THEN At(DigitChars, n + 1)
    ELSE NumToString(n \div 10) \o At(DigitChars, (n % 10) + 1)

-----------------------------------------------------------------------------
(* Regular expressions *)

WordChars == LowerChars \cup UpperChars \cup CharsOf(DigitChars) \cup {"_"}
SpaceChars == {" ", "\t", "\n", "\r", "\f"}

\* A regular expression is a sequence of elements.  A class element takes
\* characters in `set` (or outside it when neg), at least min of them and at
\* most one (or without limit when many), greedy or lazy.  A literal element
\* takes its text.  Bol and Eol are ^ and $.
Cls(set, neg, min, many, lazy) ==
    [kind |-> "cls", set |-> set, neg |-> neg, min |-> min, many |-> many, lazy |-> lazy]

One(set) == <<Cls(set, FALSE, 1, FALSE, FALSE)>>
Plus(set) == <<Cls(set, FALSE, 1, TRUE, FALSE)>>
Star(set) == <<Cls(set, FALSE, 0, TRUE, FALSE)>>
LazyPlus(set) == <<Cls(set, FALSE, 1, TRUE, TRUE)>>
Opt(set) == <<Cls(set, FALSE, 0, FALSE, FALSE)>>
NotPlus(set) == <<Cls(set, TRUE, 1, TRUE, FALSE)>>
NotLazyPlus(set) == <<Cls(set, TRUE, 1, TRUE, TRUE)>>
Lit(s) == <<[kind |-> "lit", text |-> s]>>
Bol == <<[kind |-> "bol"]>>
Eol == <<[kind |-> "eol"]>>

InClass(e, c) == IF e.neg THEN c \notin e.set ELSE c \in e.set

\* Characters are examined, and counts tried, a chunk at a time.
Chunk == 0..15
ChunkSize == Cardinality(Chunk)

\* How many characters from p on a class element can take; n of them are
\* known to be in the class and ok are the offsets in the next chunk that are.
RECURSIVE RunFrom(_, _, _, _)
RunNext(e, s, p, n, ok) ==
    IF ok = Chunk THEN RunFrom(e, s, p, n + ChunkSize)
    ELSE n + SetMin((Chunk \cup {ChunkSize}) \ ok)

RunFrom(e, s, p, n) ==
    RunNext(e, s, p, n, {m \in Chunk : p + n + m <= Len(s) /\ InClass(e, At(s, p + n + m))})

RunLength(e, s, p) ==
    IF e.many THEN RunFrom(e, s, p, 0)
    ELSE IF p <= Len(s) /\ InClass(e, At(s, p)) THEN 1 ELSE 0

\* Element boundaries <<b_k, ..., b_(n+1)>> of the preferred match of elements
\* k.. of re at position p of s, or <<>> when there is none.  A class element
\* taking lo..hi characters tries its counts from the longest down (greedy)
\* or from the shortest up (lazy) and keeps the first with which the rest of
\* the regex matches.
RECURSIVE MatchAt(_, _, _, _)
RECURSIVE TryCounts(_, _, _, _, _, _)
FirstCount(re, k, s, p, lo, hi, good) ==
    IF good # {} THEN
        (CHOOSE t \in good : \A u \in good :
            IF re[k].lazy THEN t[1] <= u[1] ELSE t[1] >= u[1])[2]
    ELSE IF hi - lo < ChunkSize THEN <<>>
    ELSE IF re[k].lazy THEN TryCounts(re, k, s, p, lo + ChunkSize, hi)
    ELSE TryCounts(re, k, s, p, lo, hi - ChunkSize)

TryCounts(re, k, s, p, lo, hi) ==
    FirstCount(re, k, s, p, lo, hi,
        {t \in {<<n, MatchAt(re, k + 1, s, p + n)>> :
                    n \in IF re[k].lazy THEN {lo + m : m \in Chunk} \cap lo..hi
                          ELSE {hi - m : m \in Chunk} \cap lo..hi} :
            t[2] # <<>>})

MatchAt(re, k, s, p) ==
    IF k > Len(re) THEN <<p>>
    ELSE LET e == re[k]
             cons(r) == IF r = <<>> THEN <<>> ELSE <<p>> \o r
         IN
         CASE e.kind = "bol" -> IF p = 1 THEN cons(MatchAt(re, k + 1, s, p)) ELSE <<>>
           [] e.kind = "eol" -> IF p = Len(s) + 1 THEN cons(MatchAt(re, k + 1, s, p)) ELSE <<>>
           [] e.kind = "lit" ->
                IF p + Len(e.text) - 1 <= Len(s) /\ SubSeq(s, p, p + Len(e.text) - 1) = e.text
                THEN cons(MatchAt(re, k + 1, s, p + Len(e.text))) ELSE <<>>
           [] e.kind = "cls" -> cons(TryCounts(re, k, s, p, e.min, RunLength(e, s, p)))

\* Of the matches found at the positions tried, the leftmost.
Leftmost(found) ==
    IF found = {} THEN <<>> ELSE CHOOSE b \in found : \A c \in found : b[1] <= c[1]

\* RegExp.prototype.exec from position `from`: the boundaries of the leftmost
\* match, or <<>> for null.
ExecFrom(re, s, from) ==
    Leftmost({b \in {MatchAt(re, 1, s, p) : p \in from..(Len(s) + 1)} : b # <<>>})

Exec(re, s) == ExecFrom(re, s, 1)

\* The text matched by elements from..to of a match with boundaries b.
Group(s, b, from, to) == SubSeq(s, b[from], b[to + 1] - 1)

MatchStart(b) == b[1]
MatchEnd(b) == b[Len(b)]

Test(re, s) == Exec(re, s) # <<>>

\* String.prototype.split on a separator that matches one character, in
\* seps when inside is TRUE and outside it otherwise: the pieces of
\* s[lo..hi], by halving.
RECURSIVE SplitRange(_, _, _, _, _)
SplitRange(s, seps, inside, lo, hi) ==
    IF lo > hi THEN <<"">>
    ELSE IF lo = hi THEN (IF (At(s, lo) \in seps) = inside THEN <<"", "">> ELSE <<At(s, lo)>>)
    ELSE LET mid == (lo + hi) \div 2
             l == SplitRange(s, seps, inside, lo, mid)
             r == SplitRange(s, seps, inside, mid + 1, hi)
         IN  SubSeq(l, 1, Len(l) - 1) \o <<l[Len(l)] \o r[1]>> \o Tail(r)

Split(s, seps) == SplitRange(s, seps, TRUE, 1, Len(s))

\* split on a character that is not in the set keep, as /\W/ is.
SplitOutside(s, keep) == SplitRange(s, keep, FALSE, 1, Len(s))

Slice(arr, start) == SubSeq(arr, start + 1, Len(arr))

\* arr[n] with JavaScript's zero-based index: <<x>>, or <<>> for undefined.
Index(arr, n) == IF n >= 0 /\ n < Len(arr) THEN <<arr[n + 1]>> ELSE <<>>

Undefined == <<>>

TypeError(what) == [name |-> "TypeError", detail |-> what]
NoError == [name |-> "", detail |-> ""]
Ok(v) == [ok |-> TRUE, val |-> v, err |-> NoError]
Throw(e) == [ok |-> FALSE, val |-> <<>>, err |-> e]

\* words.map(w => w[0].toUpperCase() + w.slice(1).toLowerCase()).join(''):
\* w[0] of an empty word is undefined, and undefined.toUpperCase() throws.
TitleCaseJoin(words) ==
    IF \E k \in 1..Len(words) : words[k] = ""
    THEN Throw(TypeError("toUpperCase"))
    ELSE Ok(Join([k \in 1..Len(words) |->
                    toUpperCase(At(words[k], 1)) \o toLowerCase(From(words[k], 2))], ""))

-----------------------------------------------------------------------------
(* Preference pipeline: cfgfiles.c -> mod.rs *)

prefixLines == 2

\* /^\s/
IndentRegex == Bol \o One(SpaceChars)

\* /{"(\w+)",[^,]+, (\w+)/
PrefRowRegex ==
    Lit("{\"") \o Plus(WordChars) \o Lit("\",") \o NotPlus({","}) \o Lit(", ") \o Plus(WordChars)

\* The lines readPrefs iterates over.
readPrefsLines(text) == Slice(Split(text, {"\n"}), prefixLines)

\* The three `continue` tests of readPrefs.
PrefLineSkipped(line) ==
    \/ line = ""
    \/ ~Test(IndentRegex, line)
    \/ Includes(line, "{0, 0, 0}")

\* const [, name, type] = regex.exec(line): destructuring null throws.
readPrefsRow(line) ==
    LET m == Exec(PrefRowRegex, line) IN
    IF m = <<>> THEN Throw(TypeError("not iterable"))
    ELSE Ok([name |-> Group(line, m, 2, 2), type |-> Group(line, m, 6, 6)])

prefNameToCamelCase(spacedName) == TitleCaseJoin(Split(spacedName, {"_"}))

\* A mapping that takes every other type for a string.
typeToRustOrString(type) ==
    CASE type = "TYPE_STR" -> Ok("String")
      [] type = "TYPE_INT" -> Ok("i32")
      [] type = "TYPE_BOOL" -> Ok("bool")
      [] OTHER -> Ok("String")

typeToRust(type) ==
    CASE type = "TYPE_STR" -> Ok("String")
      [] type = "TYPE_INT" -> Ok("i32")
      [] type = "TYPE_BOOL" -> Ok("bool")
      [] OTHER -> Throw([name |-> "Error", detail |-> "Unsupported type: " \o type])

\* The template literal of the preference generateRustLines; its
\* substitutions are evaluated left to right.
prefRustLine(spec) ==
    LET ident == prefNameToCamelCase(spec.name)
        rust == typeToRust(spec.type)
    IN  IF ~ident.ok THEN ident
        ELSE IF ~rust.ok THEN rust
        ELSE Ok("pref!(" \o ident.val \o ", \"" \o spec.name \o "\", " \o rust.val \o ");")

\* main starts: readPrefs reads and splits cfgfiles.c.
PrefsStart ==
    /\ pc = "start"
    /\ lines' = readPrefsLines(files.cfgfiles_c)
    /\ i' = 0
    /\ pc' = "loop"
    /\ UNCHANGED <<source, files, err, field_descriptions, yielded, rewritten, lastIndex, out>>

\* One line that readPrefs passes over with `continue`.
PrefsSkip ==
    /\ pc = "loop"
    /\ i < Len(lines)
    /\ PrefLineSkipped(lines[i + 1])
    /\ i' = i + 1
    /\ UNCHANGED <<source, files, pc, err, field_descriptions, yielded, rewritten, lastIndex,
                   lines, out>>

\* One line that readPrefs yields, and the line main writes for it.
PrefsEmit ==
    /\ pc = "loop"
    /\ i < Len(lines)
    /\ ~PrefLineSkipped(lines[i + 1])
    /\ LET row == readPrefsRow(lines[i + 1])
           line == prefRustLine(row.val)
       IN  /\ row.ok
           /\ line.ok
           /\ yielded' = Append(yielded, row.val)
           /\ out' = Append(out, line.val)
    /\ i' = i + 1
    /\ UNCHANGED <<source, files, pc, err, field_descriptions, rewritten, lastIndex, lines>>

\* A surviving line on which readPrefs or generateRustLines throws.
PrefsThrow ==
    /\ pc = "loop"
    /\ i < Len(lines)
    /\ ~PrefLineSkipped(lines[i + 1])
    /\ LET row == readPrefsRow(lines[i + 1])
           line == prefRustLine(row.val)
       IN  \/ /\ ~row.ok
              /\ err' = row.err
              /\ yielded' = yielded
           \/ /\ row.ok
              /\ ~line.ok
              /\ err' = line.err
              /\ yielded' = Append(yielded, row.val)
    /\ pc' = "error"
    /\ UNCHANGED <<source, files, field_descriptions, rewritten, lastIndex, lines, i, out>>

\* readPrefs is exhausted: file.end().
PrefsEnd ==
    /\ pc = "loop"
    /\ i = Len(lines)
    /\ pc' = "done"
    /\ UNCHANGED <<source, files, err, field_descriptions, yielded, rewritten, lastIndex,
                   lines, i, out>>

MaxRows == 3

\* Rows of the table in cfgfiles.c: preference rows (each with the identifier
\* its name stands for), the terminator, and the lines around them.
PrefRowChoices ==
    {[kind |-> "pref", name |-> "auto_reconnect", ident |-> "AutoReconnect", type |-> "TYPE_BOOL"],
     [kind |-> "pref", name |-> "irc_nick1", ident |-> "IrcNick1", type |-> "TYPE_STR"],
     [kind |-> "pref", name |-> "net_proxy_port", ident |-> "NetProxyPort", type |-> "TYPE_INT"],
     [kind |-> "pref", name |-> "ratio", ident |-> "Ratio", type |-> "TYPE_FLOAT"],
     [kind |-> "pref", name |-> "_x", ident |-> "X", type |-> "TYPE_INT"],
     [kind |-> "pref", name |-> "a__b", ident |-> "AB", type |-> "TYPE_FLOAT"],
     [kind |-> "sentinel", name |-> "", ident |-> "", type |-> ""],
     [kind |-> "blank", name |-> "", ident |-> "", type |-> ""],
     [kind |-> "unindented", name |-> "", ident |-> "", type |-> ""],
     [kind |-> "comment", name |-> "", ident |-> "", type |-> ""]}

RenderPrefRow(r) ==
    CASE r.kind = "pref" ->
            "\t{\"" \o r.name \o "\", P_OFFINT (hex_" \o r.name \o "), " \o r.type \o "},"
      [] r.kind = "sentinel" -> "\t{0, 0, 0},"
      [] r.kind = "blank" -> ""
      [] r.kind = "unindented" -> "};"
      [] r.kind = "comment" -> "\t/* gui */"

RenderCfgfiles(rows) ==
    "const struct prefs vars[] =\n{\n"
    \o Join([k \in 1..Len(rows) |-> RenderPrefRow(rows[k])], "\n") \o "\n"

SeqsUpTo(S, n) == UNION {[1..k -> S] : k \in 0..n}

NoFiles == [text_c |-> "", textevents_in |-> "", cfgfiles_c |-> "", handle_orig_rs |-> ""]

InitPrefs ==
    /\ \E rows \in SeqsUpTo(PrefRowChoices, MaxRows) :
        /\ source = [rows |-> rows]
        /\ files = [NoFiles EXCEPT !.cfgfiles_c = RenderCfgfiles(rows)]
    /\ pc = "start"
    /\ err = NoError
    /\ field_descriptions = <<>>
    /\ yielded = <<>>
    /\ rewritten = <<>>
    /\ lastIndex = 0
    /\ lines = <<>>
    /\ i = 0
    /\ out = <<>>

NextPrefs == PrefsStart \/ PrefsSkip \/ PrefsEmit \/ PrefsThrow \/ PrefsEnd

SpecPrefs == InitPrefs /\ [][NextPrefs]_vars

-----------------------------------------------------------------------------
(* Event pipeline: text.c + textevents.in -> events.rs *)

commentLines == 18

LineTerminators == {"\n", "\r"}

\* /const\s+(\w+)\[]/
DeclRegex == Lit("const") \o Plus(SpaceChars) \o Plus(WordChars) \o Lit("[]")

\* /N_\("(.+)"\)/
WrappedFieldRegex == Lit("N_(\"") \o NotPlus(LineTerminators) \o Lit("\")")

\* /\s"(.+)"\s*$/
BareFieldRegex ==
    One(SpaceChars) \o Lit("\"") \o NotPlus(LineTerminators) \o Lit("\"")
    \o Star(SpaceChars) \o Eol

\* const [, field] = wrapped.exec(line) || bare.exec(line)
readField(line) ==
    LET w == Exec(WrappedFieldRegex, line) IN
    IF w # <<>> THEN Ok(Group(line, w, 2, 2))
    ELSE LET b == Exec(BareFieldRegex, line) IN
         IF b # <<>> THEN Ok(Group(line, b, 3, 3))
         ELSE Throw(TypeError("not iterable"))

\* One pass of readDescriptions' for loop, from zero-based line n: the block's
\* key and fields and the line the next pass starts at.
readDescription(ls, n) ==
    LET decl == Exec(DeclRegex, ls[n + 1])
        closing == {j \in (n + 1)..(Len(ls) - 1) : StartsWith(ls[j + 1], "}")}
        close == SetMin(closing)
        fields == [j \in 1..(close - n - 1) |-> readField(ls[n + j + 1])]
        after == SetMin({j \in (close + 1)..Len(ls) : j = Len(ls) \/ ls[j + 1] # ""})
    IN  IF decl = <<>> THEN Throw(TypeError("not iterable"))
        ELSE IF closing = {} THEN
            \* a field line that matches neither pattern, or lines[i] undefined
            IF \E j \in (n + 1)..(Len(ls) - 1) : ~readField(ls[j + 1]).ok
            THEN Throw(TypeError("not iterable")) ELSE Throw(TypeError("startsWith"))
        ELSE IF \E j \in 1..Len(fields) : ~fields[j].ok THEN Throw(TypeError("not iterable"))
        ELSE Ok([key |-> Group(ls[n + 1], decl, 3, 3),
                 fields |-> [j \in 1..Len(fields) |-> fields[j].val],
                 next |-> after])

\* The record readTextEvents yields at zero-based line n.
readTextEvent(ls, n) ==
    [name |-> Index(ls, n + 0),
     signal |-> Index(ls, n + 1),
     fields_key |-> Index(ls, n + 2),
     format |-> Index(ls, n + 3),
     field_count_maybe |-> Index(ls, n + 4)]

\* A reader that advances by the five lines it reads.
readTextEventsStrideOfFields == 6 - 1

readTextEventsStride == 6

\* `${x}` and obj[x] turn undefined into the text "undefined".
TextOf(x) == IF x = Undefined THEN "undefined" ELSE x[1]

eventNameToCamelCase(spacedName) ==
    IF spacedName = Undefined THEN Throw(TypeError("split"))
    ELSE TitleCaseJoin(SplitOutside(spacedName[1], WordChars))

\* field_descriptions[fields_key]: the object has no prototype, so only the
\* keys assigned to it are found.
\* A lookup that takes an absent key for a block without labels.
LookupFieldsOrNone(descriptions, fields_key) ==
    IF TextOf(fields_key) \in DOMAIN descriptions
    THEN Ok(descriptions[TextOf(fields_key)])
    ELSE Ok(<<>>)

LookupFields(descriptions, fields_key) ==
    IF TextOf(fields_key) \in DOMAIN descriptions
    THEN Ok(descriptions[TextOf(fields_key)])
    ELSE Throw(TypeError("map"))

\* fields.map((field, i) => `${i}: "${field}"`).join(', ')
\* Pairs numbered from one.
FieldPairsFromOne(fields) ==
    Join([j \in 1..Len(fields) |-> NumToString(j) \o ": \"" \o fields[j] \o "\""], ", ")

FieldPairs(fields) ==
    Join([j \in 1..Len(fields) |-> NumToString(j - 1) \o ": \"" \o fields[j] \o "\""], ", ")

\* The template literal of the event generateRustLines; its substitutions are
\* evaluated left to right.
eventRustLine(descriptions, spec) ==
    LET ident == eventNameToCamelCase(spec.name)
        fields == LookupFields(descriptions, spec.fields_key)
    IN  IF ~ident.ok THEN ident
        ELSE IF ~fields.ok THEN fields
        ELSE Ok("print_event!(" \o ident.val \o ", \"" \o TextOf(spec.name) \o "\", \""
                \o TextOf(spec.format) \o "\", " \o FieldPairs(fields.val) \o ");")

\* main starts: generateRustLines creates the object with the reserved key,
\* and readDescriptions reads and splits text.c.
EventsStart ==
    /\ pc = "start"
    /\ field_descriptions' = ("pevt_generic_none_help" :> <<>>)
    /\ lines' = Slice(Split(files.text_c, {"\n"}), commentLines)
    /\ i' = 0
    /\ pc' = "descriptions"
    /\ UNCHANGED <<source, files, err, yielded, rewritten, lastIndex, out>>

\* One block yielded by readDescriptions and stored under its key.
DescYield ==
    /\ pc = "descriptions"
    /\ i < Len(lines)
    /\ LET d == readDescription(lines, i) IN
        /\ d.ok
        /\ field_descriptions' = (d.val.key :> d.val.fields) @@ field_descriptions
        /\ i' = d.val.next
    /\ UNCHANGED <<source, files, pc, err, yielded, rewritten, lastIndex, lines, out>>

\* A block on which readDescriptions throws.
DescThrow ==
    /\ pc = "descriptions"
    /\ i < Len(lines)
    /\ LET d == readDescription(lines, i) IN
        /\ ~d.ok
        /\ err' = d.err
    /\ pc' = "error"
    /\ UNCHANGED <<source, files, field_descriptions, yielded, rewritten, lastIndex, lines, i, out>>

\* readDescriptions is exhausted; readTextEvents reads and splits textevents.in.
DescEnd ==
    /\ pc = "descriptions"
    /\ i >= Len(lines)
    /\ lines' = Split(files.textevents_in, {"\n"})
    /\ i' = 0
    /\ pc' = "events"
    /\ UNCHANGED <<source, files, err, field_descriptions, yielded, rewritten, lastIndex, out>>

\* One record yielded by readTextEvents and the line main writes for it.
EventsEmit ==
    /\ pc = "events"
    /\ i < Len(lines)
    /\ LET spec == readTextEvent(lines, i)
           line == eventRustLine(field_descriptions, spec)
       IN  /\ line.ok
           /\ yielded' = Append(yielded, spec)
           /\ out' = Append(out, line.val)
    /\ i' = i + readTextEventsStride
    /\ UNCHANGED <<source, files, pc, err, field_descriptions, rewritten, lastIndex, lines>>

\* One record yielded by readTextEvents on which generateRustLines throws.
EventsThrow ==
    /\ pc = "events"
    /\ i < Len(lines)
    /\ LET spec == readTextEvent(lines, i)
           line == eventRustLine(field_descriptions, spec)
       IN  /\ ~line.ok
           /\ yielded' = Append(yielded, spec)
           /\ err' = line.err
    /\ pc' = "error"
    /\ UNCHANGED <<source, files, field_descriptions, rewritten, lastIndex, lines, i, out>>

\* readTextEvents is exhausted: file.end().
EventsEnd ==
    /\ pc = "events"
    /\ i >= Len(lines)
    /\ pc' = "done"
    /\ UNCHANGED <<source, files, err, field_descriptions, yielded, rewritten, lastIndex,
                   lines, i, out>>

MaxBlocks == 2
MaxEvents == 2

\* Blocks of text.c.  A literal is wrapped in N_() or bare, and is followed by
\* a comma or not; text.c has bare literals only last in a block, without a
\* comma.
WrappedLit(label, comma) == [label |-> label, wrapped |-> TRUE, comma |-> comma]
BareLit(label, comma) == [label |-> label, wrapped |-> FALSE, comma |-> comma]

DescBlockChoices ==
    {[key |-> "pevt_chanmsg_help",
      fields |-> <<WrappedLit("Nickname", TRUE), WrappedLit("The text", TRUE),
                   BareLit("Mode char", FALSE)>>],
     [key |-> "pevt_join_help", fields |-> <<BareLit("PID", FALSE)>>],
     [key |-> "pevt_join_help",
      fields |-> <<BareLit("Numeric", TRUE), WrappedLit("Text", FALSE)>>]}

RenderField(f) ==
    "\t" \o (IF f.wrapped THEN "N_(\"" \o f.label \o "\")" ELSE "\"" \o f.label \o "\"")
    \o (IF f.comma THEN "," ELSE "")

RenderBlock(b) ==
    "static char * const " \o b.key \o "[] = {\n"
    \o Concat([j \in 1..Len(b.fields) |-> RenderField(b.fields[j]) \o "\n"])
    \o "};\n"

LicenseComment == "/* X-Chat\n" \o Concat([n \in 1..15 |-> " *\n"]) \o " */\n\n"

RenderTextC(blocks) ==
    LicenseComment \o Join([k \in 1..Len(blocks) |-> RenderBlock(blocks[k])], "\n")

\* Events of textevents.in, each with the identifier its name stands for.
EventChoices ==
    {[name |-> "Join", ident |-> "Join", signal |-> "XP_TE_JOIN",
      fields_key |-> "pevt_join_help", format |-> "%C23*$t$1 has joined", count |-> "2"],
     [name |-> "Channel Message", ident |-> "ChannelMessage", signal |-> "XP_TE_CHANMSG",
      fields_key |-> "pevt_chanmsg_help", format |-> "$1: $2", count |-> "2"],
     [name |-> "Ping  Reply", ident |-> "PingReply", signal |-> "XP_TE_PINGREP",
      fields_key |-> "pevt_join_help", format |-> "Ping reply from $1", count |-> "1"],
     [name |-> "Motd", ident |-> "Motd", signal |-> "XP_TE_MOTD",
      fields_key |-> "pevt_generic_none_help", format |-> "MOTD", count |-> "0"],
     [name |-> "Part", ident |-> "Part", signal |-> "XP_TE_PART",
      fields_key |-> "constructor", format |-> "$1 has left", count |-> "1"]}

\* Lines between two groups, and whether the file ends with a newline.
LayoutChoices == {[sep |-> 1, newline |-> TRUE], [sep |-> 0, newline |-> FALSE]}

RenderEvent(e) == Join(<<e.name, e.signal, e.fields_key, e.format, e.count>>, "\n")

RenderTextEvents(events, layout) ==
    Join([k \in 1..Len(events) |-> RenderEvent(events[k])],
         IF layout.sep = 1 THEN "\n\n" ELSE "\n")
    \o (IF layout.newline THEN "\n" ELSE "")

InitEvents ==
    /\ \E blocks \in SeqsUpTo(DescBlockChoices, MaxBlocks),
          events \in SeqsUpTo(EventChoices, MaxEvents),
          layout \in LayoutChoices :
        /\ source = [blocks |-> blocks, events |-> events, layout |-> layout]
        /\ files = [NoFiles EXCEPT !.text_c = RenderTextC(blocks),
                                   !.textevents_in = RenderTextEvents(events, layout)]
    /\ pc = "start"
    /\ err = NoError
    /\ field_descriptions = <<>>
    /\ yielded = <<>>
    /\ rewritten = <<>>
    /\ lastIndex = 0
    /\ lines = <<>>
    /\ i = 0
    /\ out = <<>>

NextEvents ==
    EventsStart \/ DescYield \/ DescThrow \/ DescEnd \/ EventsEmit \/ EventsThrow \/ EventsEnd

SpecEvents == InitEvents /\ [][NextEvents]_vars

-----------------------------------------------------------------------------
(* Signature rewriter: handle_orig.rs -> handle.rs *)

\* Every match of a global regex from position `from` on, as repeatWhile
\* collects them: m is the result of the exec just made.
RECURSIVE repeatWhile(_, _, _)
repeatWhile(str, regex, m) ==
    IF m = <<>> THEN <<>>
    ELSE <<m>> \o repeatWhile(str, regex, ExecFrom(regex, str, MatchEnd(m)))

allMatches(str, regex) == repeatWhile(str, regex, ExecFrom(regex, str, 1))

\* String.prototype.replace with a global regex and the replacement '':
\* the text from `from` on with every match left out, m being the next match.
RECURSIVE RemoveNext(_, _, _, _)
RemoveNext(str, regex, from, m) ==
    IF m = <<>> THEN From(str, from)
    ELSE SubSeq(str, from, MatchStart(m) - 1)
         \o RemoveNext(str, regex, MatchEnd(m), ExecFrom(regex, str, MatchEnd(m)))

RemoveAll(str, regex) == RemoveNext(str, regex, 1, ExecFrom(regex, str, 1))

\* /unsafe fn (\w+)\((?:.|\n)+?\{/g
FnRegex ==
    Lit("unsafe fn ") \o Plus(WordChars) \o Lit("(") \o NotLazyPlus({"\r"}) \o Lit("{")

\* /(\n\s+?)\w+?:/g
DepthRegex == Lit("\n") \o LazyPlus(SpaceChars) \o LazyPlus(WordChars) \o Lit(":")

\* new RegExp(`${firstArgDepth}(\\w+):`, 'g')
argRegex(firstArgDepth) == Lit(firstArgDepth) \o Plus(WordChars) \o Lit(":")

\* A removal that takes the rest of the line with the handle declaration.
PhArgLineRegex == Lit("ph: *mut hexchat_plugin,") \o NotPlus({"\n"}) \o Opt({"\n"})

\* /ph: \*mut hexchat_plugin,\n?/g
PhArgRegex == Lit("ph: *mut hexchat_plugin,") \o Opt({"\n"})

\* (/(\n\s+?)\w+?:/g.exec(fullMatch) || [null, ''])[1]
firstArgDepth(fullMatch, d) == IF d = <<>> THEN "" ELSE Group(fullMatch, d, 1, 2)

\* allMatches(...).map(([, name]) => name).slice(1)
argNames(fullMatch, found) ==
    Slice([k \in 1..Len(found) |-> Group(fullMatch, found[k], 2, 2)], 1)

\* The text the callback returns for a block, with what it was made of.
ForwardingBlock(name, args, matchWithoutPhArg) ==
    [name |-> name,
     args |-> args,
     decl |-> matchWithoutPhArg,
     text |-> matchWithoutPhArg
              \o "// Safety: forwarded to caller\n\t\t\tunsafe { ((*self.handle.as_ptr())."
              \o name \o ")(self.handle.as_ptr(), " \o Join(args, ",") \o ") }\n\t\t"]

\* The replace callback.
RewriteBlock(fullMatch, name) ==
    ForwardingBlock(
        name,
        argNames(fullMatch,
            allMatches(fullMatch, argRegex(firstArgDepth(fullMatch, Exec(DepthRegex, fullMatch))))),
        RemoveAll(fullMatch, PhArgRegex))

\* main starts: handle_orig.rs is read and String.replace starts its scan.
RewriteStart ==
    /\ pc = "start"
    /\ lastIndex' = 1
    /\ out' = ""
    /\ pc' = "replace"
    /\ UNCHANGED <<source, files, err, field_descriptions, yielded, rewritten, lines, i>>

\* String.replace puts the callback's result r in the place of the match m.
ReplaceWith(input, m, r) ==
    /\ out' = out \o SubSeq(input, lastIndex, MatchStart(m) - 1) \o r.text
    /\ rewritten' = Append(rewritten, [name |-> r.name, args |-> r.args, decl |-> r.decl])
    /\ lastIndex' = MatchEnd(m)

ReplaceMatch(input, m) ==
    /\ m # <<>>
    /\ ReplaceWith(input, m, RewriteBlock(Group(input, m, 1, 5), Group(input, m, 2, 2)))

\* The next block the regex matches: the text before it is copied and the
\* callback's result takes the block's place.
RewriteMatch ==
    /\ pc = "replace"
    /\ ReplaceMatch(files.handle_orig_rs, ExecFrom(FnRegex, files.handle_orig_rs, lastIndex))
    /\ UNCHANGED <<source, files, pc, err, field_descriptions, yielded, lines, i>>

\* No further match: the rest is copied and handle.rs is written.
RewriteEnd ==
    /\ pc = "replace"
    /\ ExecFrom(FnRegex, files.handle_orig_rs, lastIndex) = <<>>
    /\ out' = out \o From(files.handle_orig_rs, lastIndex)
    /\ pc' = "done"
    /\ UNCHANGED <<source, files, err, field_descriptions, yielded, rewritten, lastIndex, lines, i>>

MaxFns == 2
MaxParams == 2

FnNames == <<"hexchat_get_info", "hexchat_print", "hexchat_command", "hexchat_free">>

\* Parameters after the handle, in declaration order.
ParamPool ==
    <<[name |-> "id", type |-> "*const c_char"],
      [name |-> "text", type |-> "*const ::std::os::raw::c_char"],
      [name |-> "flags", type |-> "::std::os::raw::c_int"],
      [name |-> "pri", type |-> "c_int"]>>

\* A declaration: the name of its handle parameter, whether its arguments
\* are on one line or one per line, and its other parameters.
HandleLayouts == {<<"ph", "single">>, <<"ph", "multi">>, <<"handle", "single">>}

FnChoices ==
    {[handle |-> hl[1], layout |-> hl[2], params |-> SubSeq(ParamPool, 1, n)] :
        hl \in HandleLayouts, n \in 0..MaxParams}

HandleType == ": *mut hexchat_plugin"

\* The declaration of the handle parameter with what ends it: the comma,
\* and the line break when it is on a line of its own.
HandleDecl(f) ==
    IF f.layout = "multi" THEN f.handle \o HandleType \o ",\n"
    ELSE f.handle \o HandleType \o (IF Len(f.params) > 0 THEN "," ELSE "")

\* A block from `unsafe fn` to its opening brace, with or without the
\* declaration of its handle parameter.
RenderSignature(f, name, withHandle) ==
    LET h == IF withHandle THEN HandleDecl(f) ELSE "" IN
    IF f.layout = "multi"
    THEN "unsafe fn " \o name \o "(\n        " \o h
         \o Concat([k \in 1..Len(f.params) |->
                "        " \o f.params[k].name \o ": " \o f.params[k].type \o ",\n"])
         \o "    ) -> c_int {"
    ELSE "unsafe fn " \o name \o "(" \o h
         \o Concat([k \in 1..Len(f.params) |->
                " " \o f.params[k].name \o ": " \o f.params[k].type
                \o (IF k < Len(f.params) THEN "," ELSE "")])
         \o ") -> c_int {"

FileHead == "impl PluginHandle {\n"
BlockHead == "    pub "
BlockTail == "}\n\n"
FileTail == "}\n"

RenderHandleOrig(fns) ==
    FileHead
    \o Concat([k \in 1..Len(fns) |->
            BlockHead \o RenderSignature(fns[k], FnNames[k], TRUE) \o BlockTail])
    \o FileTail

InitRewrite ==
    /\ \E fns \in SeqsUpTo(FnChoices, MaxFns) :
        /\ source = [fns |-> fns]
        /\ files = [NoFiles EXCEPT !.handle_orig_rs = RenderHandleOrig(fns)]
    /\ pc = "start"
    /\ err = NoError
    /\ field_descriptions = <<>>
    /\ yielded = <<>>
    /\ rewritten = <<>>
    /\ lastIndex = 0
    /\ lines = <<>>
    /\ i = 0
    /\ out = <<>>

NextRewrite == RewriteStart \/ RewriteMatch \/ RewriteEnd

SpecRewrite == InitRewrite /\ [][NextRewrite]_vars

-----------------------------------------------------------------------------
(* Claims about the event pipeline, checked under SpecEvents *)

EventFileLines == Split(files.textevents_in, {"\n"})

\* The record made of the five lines from zero-based line n on.
GroupAt(ls, n) ==
    [name |-> Index(ls, n), signal |-> Index(ls, n + 1), fields_key |-> Index(ls, n + 2),
     format |-> Index(ls, n + 3), field_count_maybe |-> Index(ls, n + 4)]

\* An event of the source as the record a reader should yield for it.
AsRecord(e) ==
    [name |-> <<e.name>>, signal |-> <<e.signal>>, fields_key |-> <<e.fields_key>>,
     format |-> <<e.format>>, field_count_maybe |-> <<e.count>>]

DeclaredKeys == {source.blocks[k].key : k \in 1..Len(source.blocks)}

KeyAbsent(spec) == TextOf(spec.fields_key) \notin DeclaredKeys \cup {"pevt_generic_none_help"}

\* C2: a record whose fields_key is neither declared in text.c nor the
\* reserved key ends the run with an error: it is the last record read, no
\* line is written for it, and the lines written are those of the records
\* before it, in order.
C2_UnresolvedKeyIsFatal ==
    \A k \in 1..Len(yielded) :
        KeyAbsent(yielded[k]) =>
            /\ pc = "error"
            /\ err.name = "TypeError"
            /\ k = Len(yielded)
            /\ Len(out) = k - 1
            /\ \A j \in 1..(k - 1) :
                Includes(out[j], ", \"" \o TextOf(yielded[j].name) \o "\", \""
                                  \o TextOf(yielded[j].format) \o "\", ")

\* The run stopped at a record with the key `constructor`, after one line.
C2_Witness ==
    /\ pc = "error"
    /\ Len(yielded) = 2
    /\ yielded[2].fields_key = <<"constructor">>
    /\ yielded[2].name = <<"Part">>
    /\ Len(out) = 1

\* C4 as stated: for every event name, nameToCamelCase returns the word
\* tokens title-cased and joined, and never fails.
C4_CamelCaseOfEveryName ==
    \A k \in 1..Len(yielded) : \A e \in EventChoices :
        yielded[k].name = <<e.name>> => eventNameToCamelCase(yielded[k].name) = Ok(e.ident)

\* The labels of the block a key resolves to: the last block declared under
\* it, or none for the reserved key.
DeclaredLabels(key) ==
    IF key \in DeclaredKeys
    THEN LET b == source.blocks[SetMax({k \in 1..Len(source.blocks) : source.blocks[k].key = key})]
         IN  [j \in 1..Len(b.fields) |-> b.fields[j].label]
    ELSE <<>>

IndexText == <<"0", "1", "2", "3", "4", "5", "6", "7", "8", "9">>

ExpectedPairs(labels) ==
    Join([j \in 1..Len(labels) |-> IndexText[j] \o ": \"" \o labels[j] \o "\""], ", ")

\* C8: the j-th line written comes from the j-th record read, carries that
\* record's name and format, and lists the labels of the block its key
\* resolves to as index: "label" pairs in declaration order from index 0; a
\* finished run has written one line per record.
C8_FieldAndLineOrder ==
    /\ Len(out) <= Len(yielded)
    /\ \A j \in 1..Len(out) :
        /\ ~KeyAbsent(yielded[j])
        /\ StartsWith(out[j], "print_event!(")
        /\ EndsWith(out[j], ", \"" \o TextOf(yielded[j].name) \o "\", \""
                            \o TextOf(yielded[j].format) \o "\", "
                            \o ExpectedPairs(DeclaredLabels(TextOf(yielded[j].fields_key)))
                            \o ");")
    /\ pc = "done" => Len(out) = Len(yielded)
    /\ source.layout.sep = 1 =>
        \A j \in 1..Len(out) : j <= Len(source.events) /\ yielded[j] = AsRecord(source.events[j])

\* Two lines written for two events that resolve to different blocks, one of
\* three labels with a bare last literal, one of a single bare literal.
C8_Witness ==
    /\ pc = "done"
    /\ Len(out) = 2
    /\ out[1] = "print_event!(ChannelMessage, \"Channel Message\", \"$1: $2\", "
                \o "0: \"Nickname\", 1: \"The text\", 2: \"Mode char\");"
    /\ out[2] = "print_event!(Join, \"Join\", \"%C23*$t$1 has joined\", 0: \"PID\");"

-----------------------------------------------------------------------------
(* Claims about the preference pipeline, checked under SpecPrefs *)

\* C3 as stated: a line that survives the three tests and does not match the
\* row pattern is skipped: the run never stops on such a line.
C3_NonMatchingLineSkipped ==
    ~(/\ pc = "error"
      /\ i < Len(lines)
      /\ ~PrefLineSkipped(lines[i + 1])
      /\ ~Test(PrefRowRegex, lines[i + 1]))

SupportedTypes == {"TYPE_STR", "TYPE_INT", "TYPE_BOOL"}

ExpectedRustType(type) ==
    IF type = "TYPE_STR" THEN "String" ELSE IF type = "TYPE_INT" THEN "i32" ELSE "bool"

SourcePrefs == SelectSeq(source.rows, LAMBDA r : r.kind = "pref")

\* C10 as stated: one line per preference row, in file order, each
\* pref!(<Identifier>, "<name>", <PrimitiveType>); for every name the row
\* pattern captures; other lines contribute no line and no error.
C10_OneLinePerPref ==
    /\ \A k \in 1..Len(yielded) :
        yielded[k].type \in SupportedTypes =>
            /\ k <= Len(out)
            /\ k <= Len(SourcePrefs)
            /\ out[k] = "pref!(" \o SourcePrefs[k].ident \o ", \"" \o SourcePrefs[k].name
                        \o "\", " \o ExpectedRustType(SourcePrefs[k].type) \o ");"
    /\ pc = "error" => i < Len(lines) /\ ~PrefLineSkipped(lines[i + 1])

-----------------------------------------------------------------------------
(* Claims about the signature rewriter, checked under SpecRewrite *)

\* The names of the parameters a declaration has after its handle.
DeclaredParams(f) == [k \in 1..Len(f.params) |-> f.params[k].name]

\* C5 as stated: the k-th block rewritten forwards to the function of its
\* own name, and its forwarded arguments after the handle are exactly the
\* declared parameter names in declaration order, whether the arguments are
\* on one line or one per line and whatever their types.
C5_ForwardedArguments ==
    \A k \in 1..Len(rewritten) :
        /\ rewritten[k].name = FnNames[k]
        /\ rewritten[k].args = DeclaredParams(source.fns[k])

\* C6 as stated: the declaration kept for a rewritten block is the original
\* one without its handle parameter, whatever that parameter is called.
C6_HandleParameterRemoved ==
    \A k \in 1..Len(rewritten) :
        /\ ~Includes(rewritten[k].decl, source.fns[k].handle \o HandleType)
        /\ rewritten[k].decl = RenderSignature(source.fns[k], FnNames[k], FALSE)

\* The body the rewriter adds after the opening brace of block k.
AddedBody(k) ==
    "// Safety: forwarded to caller\n\t\t\tunsafe { ((*self.handle.as_ptr())." \o FnNames[k]
    \o ")(self.handle.as_ptr(), " \o Join(rewritten[k].args, ",") \o ") }\n\t\t"

\* The output up to the end of block n, keep[k] telling whether block k
\* still has the declaration of its handle parameter.
FramedOutput(n, keep) ==
    FileHead
    \o Concat([k \in 1..n |->
            BlockHead \o RenderSignature(source.fns[k], FnNames[k], keep[k])
            \o AddedBody(k) \o BlockTail])

\* C9: the output is the input with, in each matched block, nothing changed
\* but the declaration of the handle parameter, which is either kept or
\* left out, and the generated body added after the opening brace; the text
\* before, between and after the blocks is copied as it is.
C9_EverythingElseVerbatim ==
    /\ pc = "replace" /\ rewritten # <<>> =>
        \E keep \in [1..Len(rewritten) -> BOOLEAN] :
            out \o BlockTail = FramedOutput(Len(rewritten), keep)
    /\ pc = "done" =>
        /\ Len(rewritten) = Len(source.fns)
        /\ \E keep \in [1..Len(rewritten) -> BOOLEAN] :
            out = FramedOutput(Len(rewritten), keep) \o FileTail

\* A finished run over two blocks: the first on one line with a handle
\* called `handle`, the second with one argument per line, a handle called
\* `ph` and two more parameters.
C9_Witness ==
    /\ pc = "done"
    /\ Len(rewritten) = 2
    /\ source.fns[1].handle = "handle" /\ Len(source.fns[1].params) = 1
    /\ source.fns[2].layout = "multi" /\ Len(source.fns[2].params) = 2
    /\ Includes(files.handle_orig_rs, "ph: *mut hexchat_plugin,\n")
    /\ ~Includes(out, "ph: *mut hexchat_plugin")
    /\ Includes(out, "handle: *mut hexchat_plugin, id: *const c_char) -> c_int {// Safety")

=============================================================================
